---- MODULE Spec2Model ----
(***************************************************************************)
(* Verification model of the data structures of data-structures-in-rust.   *)
(*                                                                         *)
(* HashMap (src/src/hash_map.rs): a fixed array of DEFAULT_MAX_SIZE        *)
(* optional bucket chains (std LinkedList<(K, V)>) plus the counter        *)
(* current_size.  The bucket index of a key comes from                     *)
(* KeyToIndexHasherTrait::get_index (src/src/hasher_trait.rs).             *)
(*                                                                         *)
(* Encoding.  Option<T> is a sequence of length 0 (None) or 1 (Some(x)),   *)
(* so that None and Some(empty list) are different values.  A LinkedList   *)
(* is a sequence of entries <<key, value>>, front first.  List positions   *)
(* returned by the code are 0-based, as in the source.                     *)
(***************************************************************************)
EXTENDS Integers, Sequences, FiniteSets, TLC

\* ------------------------------------------------------------------ bounds
\* Number of keys of KeyPool the callers use.
NumKeys == 4

\* Number of distinct values the callers store.
NumValues == 2

\* Inserts are issued only while current_size is below this cap.
MaxSize == 3

\* Keys the callers draw from: "K", "Q" and "11" share a bucket.
KeyPool == <<"K", "Q", "11", "A", "B", "Z">>

Keys == {KeyPool[i] : i \in 1..NumKeys}

Values == 1..NumValues

\* ------------------------------------------------------------------ Option
None == <<>>

Some(x) == <<x>>

\* ------------------------------------------------------------------ hasher
DEFAULT_MAX_SIZE == 256

\* queue.rs: the capacity a queue starts with and grows by.
DEFAULT_CAPACITY_QUEUE == 256

\* DefaultHasher::new() + key.hash() + finish() for a str key: SipHash-1-3
\* with zero keys over the key's bytes followed by 0xff.  The table holds the
\* digest modulo 2^16 (the digest itself is a u64); 256 divides 2^16, so the
\* remainder taken by get_index is the remainder of the full digest.
\*   "K"  7224107052843498986    "Q"  1475969176590154986
\*   "A" 13211085446099756707    "B" 18086178835076887451
\*   "Z"  9063307246282305530
key_hash == ("K" :> 32234) @@ ("Q" :> 64746) @@ ("11" :> 7146) @@
            ("A" :> 59043) @@ ("B" :> 13211) @@ ("Z" :> 28666)

\* get_index without the reduction modulo DEFAULT_MAX_SIZE.
get_index_without_modulus(key) == key_hash[key]

\* get_index with the remainder taken by one less than the table size.
get_index_short_modulus(key) == key_hash[key] % (DEFAULT_MAX_SIZE - 1)

get_index(key) == key_hash[key] % DEFAULT_MAX_SIZE

\* ------------------------------------------------------------------ chains
Min(S) == CHOOSE x \in S : \A y \in S : x <= y

\* Positions (1-based) of the entries of list whose key is key.
Hits(list, key) == {i \in 1..Len(list) : list[i][1] = key}

\* find_index_linked_list counting positions from 1 (index starts at 1).
find_index_linked_list_from_one(list, key) ==
    IF Hits(list, key) = {} THEN None ELSE Some(Min(Hits(list, key)))

\* find_index_linked_list: 0-based position of the first entry with the key.
find_index_linked_list(list, key) ==
    IF Hits(list, key) = {} THEN None ELSE Some(Min(Hits(list, key)) - 1)

\* find that compares the key of the front entry only.
find_front_only(list, key) ==
    IF list # <<>> /\ list[1][1] = key THEN Some(list[1]) ELSE None

\* list.iter().find(|(k, _v)| *k == key): the first entry with the key.
find(list, key) ==
    IF Hits(list, key) = {} THEN None ELSE Some(list[Min(Hits(list, key))])

\* list.iter_mut().find(..) followed by *node = entry: the first entry with
\* the key is overwritten in place.
replace_first(list, key, entry) ==
    [list EXCEPT ![Min(Hits(list, key))] = entry]

\* push_front in place of push_back.
push_front(list, entry) == <<entry>> \o list

push_back(list, entry) == Append(list, entry)

\* LinkedList::split_off(at): the list keeps [0, at), the result is [at, len).
split_off_front(list, at) == SubSeq(list, 1, at)

split_off_back(list, at) == SubSeq(list, at + 1, Len(list))

\* LinkedList::pop_front: removes the first element, does nothing when empty.
pop_front(list) == IF list = <<>> THEN list ELSE Tail(list)

\* The workaround without pop_front: the two halves are joined again.
split_remove_without_pop(list, index_to_remove) ==
    split_off_front(list, index_to_remove)
        \o split_off_back(list, index_to_remove)

\* The split_off / pop_front / append workaround of remove.
split_remove(list, index_to_remove) ==
    split_off_front(list, index_to_remove)
        \o pop_front(split_off_back(list, index_to_remove))

\* ------------------------------------------------------------------ HashMap
is_empty(size) == size = 0

\* A table whose slots start as empty chains instead of None.
new_array_of_empty_chains == [i \in 0..(DEFAULT_MAX_SIZE - 1) |-> Some(<<>>)]

new_array == [i \in 0..(DEFAULT_MAX_SIZE - 1) |-> None]

\* HashMap::get
get(arr, key) ==
    LET index == get_index(key)
        list_with_value == arr[index]
    IN  IF list_with_value # None
        THEN LET node == find(list_with_value[1], key)
             IN  IF node # None THEN Some(node[1][2]) ELSE None
        ELSE None

\* insert that returns before `self.current_size += 1` when it creates the
\* chain of an absent slot.
insert_uncounted_new_chain(arr, size, key, value) ==
    LET index == get_index(key)
    IN  IF arr[index] # None
        THEN LET list == arr[index][1]
                 node == find(list, key)
             IN  IF node # None
                 THEN [array |-> [arr EXCEPT ![index] =
                                     Some(replace_first(list, key, <<key, value>>))],
                       current_size |-> size,
                       ret |-> Some(node[1][2])]
                 ELSE [array |-> [arr EXCEPT ![index] =
                                     Some(push_back(list, <<key, value>>))],
                       current_size |-> size + 1,
                       ret |-> None]
        ELSE [array |-> [arr EXCEPT ![index] = Some(push_back(<<>>, <<key, value>>))],
              current_size |-> size,
              ret |-> None]

\* insert that looks up the slot of the key but stores a new chain in the slot
\* after it.
insert_new_chain_in_next_slot(arr, size, key, value) ==
    LET index == get_index(key)
        next_index == (index + 1) % DEFAULT_MAX_SIZE
    IN  IF arr[index] # None
        THEN LET list == arr[index][1]
                 node == find(list, key)
             IN  IF node # None
                 THEN [array |-> [arr EXCEPT ![index] =
                                     Some(replace_first(list, key, <<key, value>>))],
                       current_size |-> size,
                       ret |-> Some(node[1][2])]
                 ELSE [array |-> [arr EXCEPT ![index] =
                                     Some(push_back(list, <<key, value>>))],
                       current_size |-> size + 1,
                       ret |-> None]
        ELSE [array |-> [arr EXCEPT ![next_index] = Some(push_back(<<>>, <<key, value>>))],
              current_size |-> size + 1,
              ret |-> None]

\* HashMap::insert: the array, the counter and the returned value.
insert(arr, size, key, value) ==
    LET index == get_index(key)
    IN  IF arr[index] # None
        THEN LET list == arr[index][1]
                 node == find(list, key)
             IN  IF node # None
                 THEN [array |-> [arr EXCEPT ![index] =
                                     Some(replace_first(list, key, <<key, value>>))],
                       current_size |-> size,
                       ret |-> Some(node[1][2])]
                 ELSE [array |-> [arr EXCEPT ![index] =
                                     Some(push_back(list, <<key, value>>))],
                       current_size |-> size + 1,
                       ret |-> None]
        ELSE [array |-> [arr EXCEPT ![index] = Some(push_back(<<>>, <<key, value>>))],
              current_size |-> size + 1,
              ret |-> None]

\* The slot remove leaves behind when it always takes the split_off /
\* pop_front / append path, also for position 0.
slot_after_remove_always_split(list, index_to_remove) ==
    Some(split_remove(list, index_to_remove))

\* The slot remove leaves behind once the key was found at index_to_remove:
\* the chain without that entry, or None when the position is 0.
slot_after_remove(list, index_to_remove) ==
    IF index_to_remove # 0
    THEN Some(split_remove(list, index_to_remove))
    ELSE None

\* remove with `self.current_size -= 1` placed after the inner `if`, so that
\* it runs whenever the slot is present.
remove_counts_every_present_slot(arr, size, key) ==
    LET index == get_index(key)
    IN  IF arr[index] # None
        THEN LET list == arr[index][1]
                 node == find(list, key)
                 return_value == IF node # None THEN Some(node[1][2]) ELSE None
                 remove_data_at_index == find_index_linked_list(list, key)
             IN  [array |-> IF remove_data_at_index # None
                            THEN [arr EXCEPT ![index] =
                                     slot_after_remove(list, remove_data_at_index[1])]
                            ELSE arr,
                  current_size |-> IF size = 0 THEN size ELSE size - 1,
                  ret |-> return_value,
                  overflow |-> size = 0]
        ELSE [array |-> arr, current_size |-> size,
              ret |-> None, overflow |-> FALSE]

\* HashMap::remove: the array, the counter, the returned value and whether
\* `self.current_size -= 1` was evaluated with current_size = 0 (arithmetic
\* overflow: a panic in a build with overflow checks).
remove(arr, size, key) ==
    LET index == get_index(key)
    IN  IF arr[index] # None
        THEN LET list == arr[index][1]
                 node == find(list, key)
                 return_value == IF node # None THEN Some(node[1][2]) ELSE None
                 remove_data_at_index == find_index_linked_list(list, key)
             IN  IF remove_data_at_index # None
                 THEN LET index_to_remove == remove_data_at_index[1]
                      IN  [array |-> [arr EXCEPT ![index] =
                                         slot_after_remove(list, index_to_remove)],
                           current_size |-> IF size = 0 THEN size ELSE size - 1,
                           ret |-> return_value,
                           overflow |-> size = 0]
                 ELSE [array |-> arr, current_size |-> size,
                       ret |-> return_value, overflow |-> FALSE]
        ELSE [array |-> arr, current_size |-> size,
              ret |-> None, overflow |-> FALSE]

\* ------------------------------------------------------------------ state
VARIABLES
    array,          \* HashMap.array
    current_size,   \* HashMap.current_size
    panicked,       \* TRUE once a call has panicked (the thread unwinds)
    call,           \* the call made last: operation, arguments, returned value
    latest,         \* per key, the value of the most recent insert (Some) or
                    \* None after a remove / before any insert of the key
    removed_twice,  \* TRUE when the last two calls were remove(K), remove(K)
                    \* and the first of them returned a value
    inserted,       \* scenario: the entries inserted, in call order
    removed,        \* scenario: the keys removed afterwards
    data,           \* Stack.data
    pointer_to_top, \* Stack.pointer_to_top
    size,           \* Stack.size
    lifo,           \* the items pushed and not yet popped, oldest first
    stack_used,     \* TRUE once an item was pushed
    queue_data,     \* Queue.data
    capacity,       \* Queue.capacity
    queue_current_size, \* Queue.current_size
    fifo,           \* the items added and not yet removed, oldest first
    queue_used,     \* TRUE once an item was added
    first,          \* SinglyLinkedList.first: the data of the nodes, head first
    appended        \* Some(the items appended, in call order) while every call
                    \* on the list was an append, None afterwards

map_vars == <<array, current_size, latest, removed_twice>>

scenario_vars == <<inserted, removed>>

stack_vars == <<data, pointer_to_top, size, lifo, stack_used>>

queue_vars == <<queue_data, capacity, queue_current_size, fifo, queue_used>>

list_vars == <<first, appended>>

vars == <<array, current_size, panicked, call, latest, removed_twice,
          inserted, removed, data, pointer_to_top, size, lifo, stack_used,
          queue_data, capacity, queue_current_size, fifo, queue_used, first,
          appended>>

NoKey == ""

NoValue == 0

Call(op, key, value, ret) == [op |-> op, key |-> key, value |-> value, ret |-> ret]

\* Stack::new()
new_stack ==
    /\ data = <<>>
    /\ pointer_to_top = -1
    /\ size = 0
    /\ lifo = <<>>
    /\ stack_used = FALSE

\* Queue::new()
new_queue ==
    /\ queue_data = <<>>
    /\ capacity = DEFAULT_CAPACITY_QUEUE
    /\ queue_current_size = 0
    /\ fifo = <<>>
    /\ queue_used = FALSE

\* SinglyLinkedList::new()
new_list == first = <<>> /\ appended = Some(<<>>)

\* HashMap::new()
new_map ==
    /\ array = new_array
    /\ current_size = 0
    /\ latest = [k \in Keys |-> None]
    /\ removed_twice = FALSE
    /\ inserted = <<>>
    /\ removed = {}

\* HashMap::new(); the structures of the other specifications are left as
\* built.
Init ==
    /\ new_map
    /\ new_stack
    /\ new_queue
    /\ new_list
    /\ panicked = FALSE
    /\ call = Call("new", NoKey, NoValue, None)

\* The last two calls were remove(K), remove(K), the first returning a value.
SecondRemoveInARow ==
    /\ call.op = "remove"
    /\ call.ret # None
    /\ call'.op = "remove"
    /\ call'.key = call.key

\* What a HashMap call leaves alone: the scenario record and the stack.
MapFrame ==
    /\ removed_twice' = SecondRemoveInARow
    /\ UNCHANGED scenario_vars
    /\ UNCHANGED stack_vars
    /\ UNCHANGED <<queue_vars, list_vars>>

\* The effect of map.insert(key, value) on the map.
InsertCall(key, value) ==
    /\ ~panicked
    /\ current_size < MaxSize
    /\ LET r == insert(array, current_size, key, value)
       IN  /\ array' = r.array
           /\ current_size' = r.current_size
           /\ call' = Call("insert", key, value, r.ret)
    /\ latest' = [latest EXCEPT ![key] = Some(value)]
    /\ UNCHANGED panicked

\* The effect of map.remove(key) on the map.
RemoveCall(key) ==
    /\ ~panicked
    /\ LET r == remove(array, current_size, key)
       IN  /\ array' = r.array
           /\ current_size' = r.current_size
           /\ panicked' = r.overflow
           /\ call' = Call("remove", key, NoValue, r.ret)
    /\ latest' = [latest EXCEPT ![key] = None]

Insert(key, value) ==
    /\ InsertCall(key, value)
    /\ MapFrame

\* A get that takes the entry out of the table to read it.
Get_by_removing(key) ==
    /\ ~panicked
    /\ call' = Call("get", key, NoValue, get(array, key))
    /\ array' = remove(array, current_size, key).array
    /\ UNCHANGED <<current_size, panicked, latest>>
    /\ MapFrame

Get(key) ==
    /\ ~panicked
    /\ call' = Call("get", key, NoValue, get(array, key))
    /\ UNCHANGED <<array, current_size, panicked, latest>>
    /\ MapFrame

Remove(key) ==
    /\ RemoveCall(key)
    /\ MapFrame

\* HashMap::clear: the body is todo!(), which panics before touching self.
Clear ==
    /\ ~panicked
    /\ panicked' = TRUE
    /\ call' = Call("clear", NoKey, NoValue, None)
    /\ UNCHANGED <<array, current_size, latest>>
    /\ MapFrame

\* HashMap::is_empty
IsEmpty ==
    /\ ~panicked
    /\ call' = Call("is_empty", NoKey, NoValue, Some(is_empty(current_size)))
    /\ UNCHANGED <<array, current_size, panicked, latest>>
    /\ MapFrame

Next ==
    \/ \E key \in Keys, value \in Values : Insert(key, value)
    \/ \E key \in Keys : Get(key)
    \/ \E key \in Keys : Remove(key)
    \/ Clear
    \/ IsEmpty

Spec == Init /\ [][Next]_vars

\* ------------------------------------------------------------------ Stack
\* (src/src/stack.rs)  data is a Vec, front first; pointer_to_top is the
\* 0-based index of the top item, -1 when there is none.

\* Pushes are issued only while the stack holds fewer items than this.
MaxStack == 4

\* Vec::insert(index, element); the call panics when index > len.
vec_insert(vec, index, element) ==
    SubSeq(vec, 1, index) \o <<element>> \o SubSeq(vec, index + 1, Len(vec))

\* Vec::remove(index): the vector without that element; the call panics when
\* index >= len.
vec_remove(vec, index) ==
    SubSeq(vec, 1, index) \o SubSeq(vec, index + 2, Len(vec))

\* Vec::get(index)
vec_get(vec, index) ==
    IF index >= 0 /\ index < Len(vec) THEN Some(vec[index + 1]) ELSE None

\* Stack::is_empty
stack_is_empty(d) == d = <<>>

\* Stack::push
push(d, p, n, item) ==
    LET top == p + 1
        fits == top >= 0 /\ top <= Len(d)
    IN  [data |-> IF fits THEN vec_insert(d, top, item) ELSE d,
         pointer_to_top |-> top,
         size |-> IF fits THEN n + 1 ELSE n,
         panic |-> ~fits]

\* peek that reads index 0 instead of the item at pointer_to_top.
peek_bottom(d, p) ==
    IF p < 0 THEN None ELSE vec_get(d, 0)

\* Stack::peek
peek(d, p) ==
    IF p < 0 THEN None ELSE vec_get(d, p)

\* pop that takes the item at index 0 instead of the one at pointer_to_top.
pop_from_bottom(d, p, n) ==
    IF p < 0
    THEN [data |-> d, pointer_to_top |-> p, size |-> n, ret |-> None,
          panic |-> FALSE]
    ELSE IF n = 0 \/ d = <<>>
    THEN [data |-> d, pointer_to_top |-> p, size |-> n, ret |-> None,
          panic |-> TRUE]
    ELSE [data |-> vec_remove(d, 0), pointer_to_top |-> p - 1, size |-> n - 1,
          ret |-> Some(d[1]), panic |-> FALSE]

\* pop without the `pointer_to_top.is_negative()` early return.
pop_unguarded(d, p, n) ==
    IF n = 0
    THEN [data |-> d, pointer_to_top |-> p, size |-> n, ret |-> None,
          panic |-> TRUE]
    ELSE IF p < 0 \/ p >= Len(d)
    THEN [data |-> d, pointer_to_top |-> p, size |-> n - 1, ret |-> None,
          panic |-> TRUE]
    ELSE [data |-> vec_remove(d, p), pointer_to_top |-> p - 1, size |-> n - 1,
          ret |-> Some(d[p + 1]), panic |-> FALSE]

\* Stack::pop.  `self.size -= 1` panics on 0 (u32 overflow) before anything
\* is changed; data.remove panics, after the decrement, when the index is
\* out of range.
pop(d, p, n) ==
    IF p < 0
    THEN [data |-> d, pointer_to_top |-> p, size |-> n, ret |-> None,
          panic |-> FALSE]
    ELSE IF n = 0
    THEN [data |-> d, pointer_to_top |-> p, size |-> n, ret |-> None,
          panic |-> TRUE]
    ELSE IF p >= Len(d)
    THEN [data |-> d, pointer_to_top |-> p, size |-> n - 1, ret |-> None,
          panic |-> TRUE]
    ELSE [data |-> vec_remove(d, p), pointer_to_top |-> p - 1, size |-> n - 1,
          ret |-> Some(d[p + 1]), panic |-> FALSE]

\* What a Stack call leaves alone: the map and the scenario record.
StackFrame ==
    /\ UNCHANGED map_vars
    /\ UNCHANGED scenario_vars
    /\ UNCHANGED <<queue_vars, list_vars>>

\* Stack::new(); the map of the other specifications is left as built.
StackInit ==
    /\ new_stack
    /\ new_map
    /\ new_queue
    /\ new_list
    /\ panicked = FALSE
    /\ call = Call("new", NoKey, NoValue, None)

Push(item) ==
    /\ ~panicked
    /\ Len(data) < MaxStack
    /\ LET r == push(data, pointer_to_top, size, item)
       IN  /\ data' = r.data
           /\ pointer_to_top' = r.pointer_to_top
           /\ size' = r.size
           /\ panicked' = r.panic
    /\ call' = Call("push", NoKey, item, None)
    /\ lifo' = Append(lifo, item)
    /\ stack_used' = TRUE
    /\ StackFrame

Pop ==
    /\ ~panicked
    /\ LET r == pop(data, pointer_to_top, size)
       IN  /\ data' = r.data
           /\ pointer_to_top' = r.pointer_to_top
           /\ size' = r.size
           /\ panicked' = r.panic
           /\ call' = Call("pop", NoKey, NoValue, r.ret)
    /\ lifo' = IF lifo = <<>> THEN lifo ELSE SubSeq(lifo, 1, Len(lifo) - 1)
    /\ UNCHANGED stack_used
    /\ StackFrame

Peek ==
    /\ ~panicked
    /\ call' = Call("peek", NoKey, NoValue, peek(data, pointer_to_top))
    /\ UNCHANGED <<panicked, stack_vars>>
    /\ StackFrame

StackIsEmpty ==
    /\ ~panicked
    /\ call' = Call("is_empty", NoKey, NoValue, Some(stack_is_empty(data)))
    /\ UNCHANGED <<panicked, stack_vars>>
    /\ StackFrame

StackNext ==
    \/ \E item \in Values : Push(item)
    \/ Pop
    \/ Peek
    \/ StackIsEmpty

SpecStack == StackInit /\ [][StackNext]_vars

\* ------------------------------------------------------------------ Queue
\* (src/src/queue.rs)  data is a Vec<Option<T>>, the oldest item at index 0;
\* every stored element is Some(item).

\* An added item is chosen freely while the queue holds fewer items than
\* this; beyond that the item added is 1.
QueueFree == 2

\* Items are added until the queue holds this many more than
\* DEFAULT_CAPACITY_QUEUE.
QueueOverfill == 1

\* Queue::is_empty
queue_is_empty(n) == n = 0

\* Queue::is_full
is_full(n, cap) == n = cap

\* add that never raises capacity.
add_without_growth(d, cap, n, item) ==
    LET fits == n <= Len(d)
    IN  [data |-> IF fits THEN vec_insert(d, n, Some(item)) ELSE d,
         capacity |-> cap,
         current_size |-> IF fits THEN n + 1 ELSE n,
         panic |-> ~fits]

\* Queue::add.  Vec::insert panics when current_size > len.
add(d, cap, n, item) ==
    LET fits == n <= Len(d)
    IN  [data |-> IF fits THEN vec_insert(d, n, Some(item)) ELSE d,
         capacity |-> IF is_full(n, cap) THEN cap + DEFAULT_CAPACITY_QUEUE ELSE cap,
         current_size |-> IF fits THEN n + 1 ELSE n,
         panic |-> ~fits]

\* remove that takes the newest item, the one at the back of data.
queue_remove_from_back(d, n) ==
    IF queue_is_empty(n)
    THEN [data |-> d, current_size |-> n, ret |-> None, panic |-> FALSE]
    ELSE IF d = <<>>
    THEN [data |-> d, current_size |-> n, ret |-> None, panic |-> TRUE]
    ELSE [data |-> SubSeq(d, 1, Len(d) - 1), current_size |-> n - 1,
          ret |-> d[Len(d)], panic |-> FALSE]

\* remove without the is_empty() early return.
queue_remove_unguarded(d, n) ==
    IF d = <<>>
    THEN [data |-> d, current_size |-> n, ret |-> None, panic |-> TRUE]
    ELSE [data |-> vec_remove(d, 0), current_size |-> n - 1, ret |-> d[1],
          panic |-> FALSE]

\* Queue::remove.  Vec::remove(0) panics on an empty vector.
queue_remove(d, n) ==
    IF queue_is_empty(n)
    THEN [data |-> d, current_size |-> n, ret |-> None, panic |-> FALSE]
    ELSE IF d = <<>>
    THEN [data |-> d, current_size |-> n, ret |-> None, panic |-> TRUE]
    ELSE [data |-> vec_remove(d, 0), current_size |-> n - 1, ret |-> d[1],
          panic |-> FALSE]

\* peek that reads the front of data.
queue_peek_front(d) ==
    IF d # <<>> THEN d[1] ELSE None

\* Queue::peek: data.last().cloned(), flattened.
queue_peek(d) ==
    IF d # <<>> THEN d[Len(d)] ELSE None

\* What a Queue call leaves alone.
QueueFrame ==
    /\ UNCHANGED map_vars
    /\ UNCHANGED scenario_vars
    /\ UNCHANGED <<stack_vars, list_vars>>

\* Queue::new(); the other structures are left as built.
QueueInit ==
    /\ new_queue
    /\ new_map
    /\ new_stack
    /\ new_list
    /\ panicked = FALSE
    /\ call = Call("new", NoKey, NoValue, None)

Add(item) ==
    /\ ~panicked
    /\ queue_current_size < DEFAULT_CAPACITY_QUEUE + QueueOverfill
    /\ queue_current_size >= QueueFree => item = 1
    /\ LET r == add(queue_data, capacity, queue_current_size, item)
       IN  /\ queue_data' = r.data
           /\ capacity' = r.capacity
           /\ queue_current_size' = r.current_size
           /\ panicked' = r.panic
    /\ call' = Call("add", NoKey, item, None)
    /\ fifo' = Append(fifo, item)
    /\ queue_used' = TRUE
    /\ QueueFrame

QueueRemove ==
    /\ ~panicked
    /\ LET r == queue_remove(queue_data, queue_current_size)
       IN  /\ queue_data' = r.data
           /\ queue_current_size' = r.current_size
           /\ panicked' = r.panic
           /\ call' = Call("remove", NoKey, NoValue, r.ret)
    /\ fifo' = IF fifo = <<>> THEN fifo ELSE Tail(fifo)
    /\ UNCHANGED <<capacity, queue_used>>
    /\ QueueFrame

QueuePeek ==
    /\ ~panicked
    /\ call' = Call("peek", NoKey, NoValue, queue_peek(queue_data))
    /\ UNCHANGED <<panicked, queue_vars>>
    /\ QueueFrame

QueueNext ==
    \/ \E item \in Values : Add(item)
    \/ QueueRemove
    \/ QueuePeek

SpecQueue == QueueInit /\ [][QueueNext]_vars

\* ------------------------------------------------------------------ SinglyLinkedList
\* (src/src/singly_linked_list.rs)  The chain of boxed nodes reachable from
\* `first` is the sequence of the nodes' data, head first; a node is named by
\* its position in the chain, 1 for the head.  An operation yields the chain
\* it leaves behind and the message it panicked with, <<>> when it returned.

\* Nodes are added only while the list holds fewer nodes than this.
MaxList == 4

NoPanic == <<>>

ListIsEmptyMessage == <<"List is empty, this action is not possible.">>

GivenNotFoundMessage(given_data) ==
    <<"Given node '", given_data, "' not found in the list!">>

DeleteFirstMessage == <<"Cannot delete the first element from an empty list!">>

DeleteLastMessage == <<"Cannot delete the last element from an empty list!">>

DataNotFoundMessage == <<"Node with given d not found!">>

\* SinglyLinkedList::is_empty
list_is_empty(list) == list = <<>>

\* SinglyLinkedList::find_last_node
find_last_node(list) ==
    IF list = <<>> THEN None ELSE Some(Len(list))

\* SinglyLinkedList::find_before_last: the first node whose next node has no
\* next.
find_before_last(list) ==
    LET found == {i \in DOMAIN list : i + 1 \in DOMAIN list /\ i + 2 \notin DOMAIN list}
    IN  IF found = {} THEN None ELSE Some(Min(found))

\* find_node that returns the last node holding the data.
find_node_from_back(list, given_data) ==
    LET found == {i \in DOMAIN list : list[i] = given_data}
    IN  IF found = {} THEN None ELSE Some(CHOOSE i \in found : \A j \in found : j <= i)

\* SinglyLinkedList::find_node: the first node holding the data.
find_node(list, given_data) ==
    LET found == {i \in DOMAIN list : list[i] = given_data}
    IN  IF found = {} THEN None ELSE Some(Min(found))

\* SinglyLinkedList::find_previous_node: the first node whose next node holds
\* the data.
find_previous_node(list, given_data) ==
    LET found == {i \in DOMAIN list : i + 1 \in DOMAIN list /\ list[i + 1] = given_data}
    IN  IF found = {} THEN None ELSE Some(Min(found))

\* `Node::new_with_next(data, node.next.take())` followed by
\* `node.next = Some(new_node)`, for the node at position i.
link_after(list, i, d) ==
    SubSeq(list, 1, i) \o <<d>> \o SubSeq(list, i + 1, Len(list))

\* append that links the new node in front of the head.
append_in_front(list, d) == <<d>> \o list

\* SinglyLinkedList::append
append(list, d) ==
    LET last_node == find_last_node(list)
    IN  IF last_node # None THEN link_after(list, last_node[1], d)
        ELSE <<d>>

\* SinglyLinkedList::prepend
prepend(list, d) == <<d>> \o list

\* SinglyLinkedList::insert_after_given
insert_after_given(list, d, given_data) ==
    IF list_is_empty(list)
    THEN [first |-> list, panic |-> ListIsEmptyMessage]
    ELSE LET node_with_data == find_node(list, given_data)
         IN  IF node_with_data # None
             THEN [first |-> link_after(list, node_with_data[1], d),
                   panic |-> NoPanic]
             ELSE [first |-> list, panic |-> GivenNotFoundMessage(given_data)]

\* SinglyLinkedList::insert_before_given
insert_before_given(list, d, given_data) ==
    IF list_is_empty(list)
    THEN [first |-> list, panic |-> ListIsEmptyMessage]
    ELSE LET node_before == find_previous_node(list, given_data)
         IN  IF node_before # None
             THEN [first |-> link_after(list, node_before[1], d),
                   panic |-> NoPanic]
             ELSE [first |-> list, panic |-> GivenNotFoundMessage(given_data)]

\* SinglyLinkedList::clear
list_clear(list) == <<>>

\* delete_first that unlinks the node behind the head.
delete_first_keeping_head(list) ==
    IF list_is_empty(list)
    THEN [first |-> list, panic |-> DeleteFirstMessage]
    ELSE [first |-> <<Head(list)>> \o SubSeq(list, 3, Len(list)), panic |-> NoPanic]

\* SinglyLinkedList::delete_first
delete_first(list) ==
    IF list_is_empty(list)
    THEN [first |-> list, panic |-> DeleteFirstMessage]
    ELSE [first |-> Tail(list), panic |-> NoPanic]

\* SinglyLinkedList::delete_last: `node.next = None` on the node before the
\* last one.
delete_last(list) ==
    LET last_node == find_before_last(list)
    IN  IF last_node # None
        THEN [first |-> SubSeq(list, 1, last_node[1]), panic |-> NoPanic]
        ELSE [first |-> list, panic |-> DeleteLastMessage]

\* delete_node_with_data that returns quietly when no node holds the data.
delete_node_with_data_ignoring_absent(list, d) ==
    LET data_node == find_node(list, d)
    IN  IF data_node # None
        THEN LET reference == SubSeq(list, data_node[1] + 1, Len(list))
                 cut == SubSeq(list, 1, data_node[1])
                 previous_node == find_previous_node(cut, d)
             IN  IF previous_node # None
                 THEN [first |-> SubSeq(cut, 1, previous_node[1]) \o reference,
                       panic |-> NoPanic]
                 ELSE [first |-> <<>>, panic |-> NoPanic]
        ELSE [first |-> list, panic |-> NoPanic]

\* SinglyLinkedList::delete_node_with_data.  `node.next.take()` cuts the chain
\* behind the node found; find_previous_node then walks the cut chain.
delete_node_with_data(list, d) ==
    LET data_node == find_node(list, d)
    IN  IF data_node # None
        THEN LET reference == SubSeq(list, data_node[1] + 1, Len(list))
                 cut == SubSeq(list, 1, data_node[1])
                 previous_node == find_previous_node(cut, d)
             IN  IF previous_node # None
                 THEN [first |-> SubSeq(cut, 1, previous_node[1]) \o reference,
                       panic |-> NoPanic]
                 ELSE [first |-> <<>>, panic |-> NoPanic]
        ELSE [first |-> list, panic |-> DataNotFoundMessage]

ListCall(op, d, given_data, panic) ==
    [op |-> op, data |-> d, given_data |-> given_data, panic |-> panic]

\* What a SinglyLinkedList call leaves alone.
ListFrame ==
    /\ UNCHANGED map_vars
    /\ UNCHANGED scenario_vars
    /\ UNCHANGED <<stack_vars, queue_vars>>

\* SinglyLinkedList::new(); the other structures are left as built.
ListInit ==
    /\ new_list
    /\ new_map
    /\ new_stack
    /\ new_queue
    /\ panicked = FALSE
    /\ call = ListCall("new", NoValue, NoValue, NoPanic)

\* The call op(d, given_data) left the chain r.first and panicked with
\* r.panic, if it did.
ListReturn(op, d, given_data, r) ==
    /\ first' = r.first
    /\ panicked' = (r.panic # NoPanic)
    /\ call' = ListCall(op, d, given_data, r.panic)
    /\ appended' = IF op = "append" /\ appended # None
                   THEN Some(Append(appended[1], d)) ELSE None
    /\ ListFrame

ListAppend(d) ==
    /\ ~panicked
    /\ Len(first) < MaxList
    /\ ListReturn("append", d, NoValue, [first |-> append(first, d), panic |-> NoPanic])

ListPrepend(d) ==
    /\ ~panicked
    /\ Len(first) < MaxList
    /\ ListReturn("prepend", d, NoValue, [first |-> prepend(first, d), panic |-> NoPanic])

InsertAfterGiven(d, given_data) ==
    /\ ~panicked
    /\ Len(first) < MaxList
    /\ ListReturn("insert_after_given", d, given_data,
                  insert_after_given(first, d, given_data))

InsertBeforeGiven(d, given_data) ==
    /\ ~panicked
    /\ Len(first) < MaxList
    /\ ListReturn("insert_before_given", d, given_data,
                  insert_before_given(first, d, given_data))

DeleteFirst ==
    /\ ~panicked
    /\ ListReturn("delete_first", NoValue, NoValue, delete_first(first))

DeleteLast ==
    /\ ~panicked
    /\ ListReturn("delete_last", NoValue, NoValue, delete_last(first))

DeleteNodeWithData(d) ==
    /\ ~panicked
    /\ ListReturn("delete_node_with_data", d, NoValue,
                  delete_node_with_data(first, d))

ListClear ==
    /\ ~panicked
    /\ ListReturn("clear", NoValue, NoValue, [first |-> list_clear(first), panic |-> NoPanic])

ListNext ==
    \/ \E d \in Values : ListAppend(d)
    \/ \E d \in Values : ListPrepend(d)
    \/ \E d \in Values, given_data \in Values : InsertAfterGiven(d, given_data)
    \/ \E d \in Values, given_data \in Values : InsertBeforeGiven(d, given_data)
    \/ DeleteFirst
    \/ DeleteLast
    \/ \E d \in Values : DeleteNodeWithData(d)
    \/ ListClear

SpecList == ListInit /\ [][ListNext]_vars

\* ------------------------------------------------------------------ scenario
\* Distinct keys are inserted, then some of them are removed, in any order
\* (test_remove_when_multiple_nodes, test_remove_when_all_values_removed).

InsertedKeys == {inserted[i][1] : i \in DOMAIN inserted}

ScenarioInsert(key, value) ==
    /\ removed = {}
    /\ key \notin InsertedKeys
    /\ InsertCall(key, value)
    /\ inserted' = Append(inserted, <<key, value>>)
    /\ UNCHANGED <<removed, removed_twice>>
    /\ UNCHANGED <<stack_vars, queue_vars, list_vars>>

ScenarioRemove(key) ==
    /\ key \in InsertedKeys
    /\ key \notin removed
    /\ RemoveCall(key)
    /\ removed' = removed \cup {key}
    /\ UNCHANGED <<inserted, removed_twice>>
    /\ UNCHANGED <<stack_vars, queue_vars, list_vars>>

ScenarioNext ==
    \/ \E key \in Keys, value \in Values : ScenarioInsert(key, value)
    \/ \E key \in Keys : ScenarioRemove(key)

SpecScenario == Init /\ [][ScenarioNext]_vars

RECURSIVE build_expected_array(_)
\* HashMapTestBuilder::build_expected_array: every entry of values is pushed
\* to the back of the chain of its slot, in order.
build_expected_array(values) ==
    IF values = <<>> THEN new_array
    ELSE LET n == Len(values)
             expected == build_expected_array(SubSeq(values, 1, n - 1))
             index == get_index(values[n][1])
         IN  IF expected[index] # None
             THEN [expected EXCEPT ![index] = Some(push_back(expected[index][1], values[n]))]
             ELSE [expected EXCEPT ![index] = Some(push_back(<<>>, values[n]))]

\* The inserted entries whose key was not removed, in insertion order.
Survivors == SelectSeq(inserted, LAMBDA e : e[1] \notin removed)

\* The value the scenario inserted under key.
InsertedValue(key) ==
    inserted[CHOOSE i \in DOMAIN inserted : inserted[i][1] = key][2]

\* ------------------------------------------------------------------ helpers
\* The key has an entry in some bucket of arr.
Stored(arr, key) ==
    \E i \in DOMAIN arr : arr[i] # None /\ Hits(arr[i][1], key) # {}

\* The positions <<slot, place in the chain>> of all entries of arr.
EntryPositions(arr) ==
    UNION {{<<i, j>> : j \in 1..Len(arr[i][1])} :
              i \in {n \in DOMAIN arr : arr[n] # None}}

\* Number of entries stored across all buckets of arr.
TotalEntries(arr) == Cardinality(EntryPositions(arr))

\* ------------------------------------------------------------------ claims

\* C1: get(K) returns Some(V) exactly when the most recent insert or remove
\* on K was insert(K, V), and None otherwise, whatever else shares K's bucket.
C1_GetMatchesLatestCall ==
    \A k \in Keys : get(array, k) = latest[k]

\* C2: current_size equals the total number of entries stored across all
\* buckets of the table.
C2_SizeCountsEntries ==
    current_size = TotalEntries(array)

\* C3: when two distinct keys of the same bucket are both present, remove of
\* either one returns its own value, leaves the other retrievable with its
\* value unchanged, and reduces size by exactly 1.
C3_RemoveKeepsCollidingKey ==
    [][\A other \in Keys :
          ( /\ call'.op = "remove"
            /\ other # call'.key
            /\ get_index(other) = get_index(call'.key)
            /\ Stored(array, call'.key)
            /\ Stored(array, other) )
          => ( /\ call'.ret = get(array, call'.key)
               /\ call'.ret # None
               /\ get(array', other) = get(array, other)
               /\ get(array', other) # None
               /\ current_size' = current_size - 1 )]_vars

\* C4: for a key that is not present, get returns None, and insert returns
\* None, increases size by exactly 1 and makes get return the inserted value.
C4_AbsentKeyGetAndInsert ==
    [][/\ (call'.op = "get" /\ ~Stored(array, call'.key))
            => call'.ret = None
       /\ (call'.op = "insert" /\ ~Stored(array, call'.key))
            => ( /\ call'.ret = None
                 /\ current_size' = current_size + 1
                 /\ get(array', call'.key) = Some(call'.value) )]_vars

\* C4 witness: an insert of a key that was not present has just returned
\* None, into a bucket that already held another key.
C4_Witness ==
    /\ call.op = "insert"
    /\ call.ret = None
    /\ get(array, call.key) = Some(call.value)
    /\ Len(array[get_index(call.key)][1]) >= 2

\* C5: for a key inserted with V1 and not itself removed since, whatever was
\* done to other keys in between, insert(K, V2) returns Some(V1), leaves size
\* unchanged, and get(K) then returns Some(V2).
C5_ReinsertReturnsOldValue ==
    [][(call'.op = "insert" /\ latest[call'.key] # None)
          => ( /\ call'.ret = latest[call'.key]
               /\ current_size' = current_size
               /\ get(array', call'.key) = Some(call'.value) )]_vars

\* C6: for a present key, remove returns the key's current value, decreases
\* size by exactly 1, and get of the key then returns None.
C6_RemovePresentKey ==
    [][(call'.op = "remove" /\ Stored(array, call'.key))
          => ( /\ call'.ret # None
               /\ call'.ret = get(array, call'.key)
               /\ current_size' = current_size - 1
               /\ get(array', call'.key) = None
               /\ ~Stored(array', call'.key) )]_vars

\* C6 witness: a remove has just returned the value of a present key whose
\* bucket still holds other keys.
C6_Witness ==
    /\ call.op = "remove"
    /\ call.ret # None
    /\ array[get_index(call.key)] # None

\* C7: remove of a key that is not present returns None and changes neither
\* size nor any bucket, whether the key's slot is absent or holds other keys.
C7_RemoveAbsentKey ==
    [][(call'.op = "remove" /\ ~Stored(array, call'.key))
          => ( /\ call'.ret = None
               /\ current_size' = current_size
               /\ array' = array
               /\ ~panicked' )]_vars

\* C7 witness: a remove has just returned None for a key whose slot holds
\* other keys.
C7_Witness ==
    /\ call.op = "remove"
    /\ call.ret = None
    /\ array[get_index(call.key)] # None
    /\ current_size > 0

\* C8: after clear(), is_empty() is true, size is 0 and every slot is absent.
C8_ClearEmptiesMap ==
    call.op = "clear"
        => ( /\ ~panicked
             /\ is_empty(current_size)
             /\ current_size = 0
             /\ \A i \in DOMAIN array : array[i] = None )

\* C9: no HashMap operation panics; every call completes.
C9_NoOperationPanics ==
    ~panicked

\* A slot is present exactly when its bucket holds at least one entry.
SlotsHoldNonEmptyChains ==
    \A i \in DOMAIN array : array[i] # None => Len(array[i][1]) >= 1

\* A remove that takes the last entry of a bucket leaves the slot absent.
EmptiedBucketBecomesAbsent ==
    ( /\ call'.op = "remove"
      /\ call'.ret # None
      /\ Len(array[get_index(call'.key)][1]) = 1 )
    => array'[get_index(call'.key)] = None

\* C10: a table slot is present if and only if its bucket holds at least one
\* entry: no slot holds an empty chain, and a bucket whose last entry is
\* removed becomes absent.
C10_PresentSlotsAreNonEmpty ==
    []SlotsHoldNonEmptyChains /\ [][EmptiedBucketBecomesAbsent]_vars

\* C10 witness: a remove has just taken the only entry of a bucket while
\* other buckets are still present.
C10_Witness ==
    /\ call.op = "remove"
    /\ call.ret # None
    /\ array[get_index(call.key)] = None
    /\ \E i \in DOMAIN array : array[i] # None

\* C11: every bucket chain holds at most one entry per distinct key.
C11_KeysUniqueInChain ==
    \A i \in DOMAIN array :
        array[i] # None =>
            \A a, b \in 1..Len(array[i][1]) :
                array[i][1][a][1] = array[i][1][b][1] => a = b

\* C11 witness: a key of a chain of two or more entries has just been
\* inserted again.
C11_Witness ==
    /\ call.op = "insert"
    /\ call.ret # None
    /\ Len(array[get_index(call.key)][1]) >= 2

\* The chain of slot i, empty when the slot is absent.
ChainOf(arr, i) == IF arr[i] = None THEN <<>> ELSE arr[i][1]

\* The chain without the entries of key, the others kept in order.
WithoutKey(list, key) == SelectSeq(list, LAMBDA e : e[1] # key)

\* C12: remove of a present key leaves its bucket equal to the previous chain
\* with only that key's entry deleted and the order of the others preserved,
\* whether the entry was the head, an interior or the tail entry.
C12_RemoveDeletesOnlyItsEntry ==
    [][(call'.op = "remove" /\ Stored(array, call'.key))
          => ChainOf(array', get_index(call'.key))
               = WithoutKey(ChainOf(array, get_index(call'.key)), call'.key)]_vars

\* C13: after inserting distinct keys and then removing any subset of them in
\* any order, every remove returned Some(that key's value), size equals the
\* number of surviving keys, and the table equals the table built by
\* inserting only the surviving keys in their original order.
C13_RemoveSubsetLeavesSurvivors ==
    /\ call.op = "remove" => call.ret = Some(InsertedValue(call.key))
    /\ removed # {} =>
          /\ current_size = Len(Survivors)
          /\ array = build_expected_array(Survivors)

\* C14: remove(K) twice in a row on a map where K is present returns K's
\* value the first time and None the second time, and the second call changes
\* neither size nor the table.
C14_SecondRemoveIsNoOp ==
    [][/\ (call'.op = "remove" /\ Stored(array, call'.key))
            => (call'.ret # None /\ call'.ret = get(array, call'.key))
       /\ SecondRemoveInARow
            => ( /\ call'.ret = None
                 /\ current_size' = current_size
                 /\ array' = array )]_vars

\* C14 witness: the same key has just been removed twice in a row, the first
\* call returning its value, from a bucket that holds another key.
C14_Witness ==
    /\ removed_twice
    /\ call.ret = None
    /\ array[get_index(call.key)] # None

\* The chain after insert(key, value): the entry appended when the chain has
\* no entry of the key, else the entry of the key replaced where it stands.
ChainAfterInsert(chain, key, value) ==
    IF Hits(chain, key) = {}
    THEN Append(chain, <<key, value>>)
    ELSE [j \in 1..Len(chain) |->
              IF chain[j][1] = key THEN <<key, value>> ELSE chain[j]]

\* C15: insert of a new key appends its entry at the tail of its bucket chain
\* (creating the chain if the slot was absent); insert of an existing key
\* replaces the value in place, keeping the entry's position and every other
\* entry unchanged.
C15_InsertAppendsOrReplacesInPlace ==
    [][call'.op = "insert"
          => array' = [array EXCEPT ![get_index(call'.key)] =
                          Some(ChainAfterInsert(ChainOf(array, get_index(call'.key)),
                                                call'.key, call'.value))]]_vars

\* C15 witness: the second entry of a chain has just had its value replaced
\* by a different one.
C15_Witness ==
    /\ call.op = "insert"
    /\ call.ret # None
    /\ call.ret # Some(call.value)
    /\ Len(array[get_index(call.key)][1]) >= 2
    /\ array[get_index(call.key)][1][2] = <<call.key, call.value>>

\* C16: get never mutates the map: the table and size are the same before
\* and after the call.
C16_GetLeavesMapUnchanged ==
    [][call'.op = "get"
          => (array' = array /\ current_size' = current_size)]_vars

\* C16 witness: a get has just returned the value of a stored key.
C16_Witness ==
    /\ call.op = "get"
    /\ call.ret # None
    /\ current_size >= 2

\* C17: a newly constructed map has every slot absent, size 0 and is_empty()
\* true; is_empty() returns true exactly when size is 0.
C17_NewMapIsEmpty ==
    /\ call.op = "new"
          => ( /\ \A i \in 0..(DEFAULT_MAX_SIZE - 1) : array[i] = None
               /\ DOMAIN array = 0..(DEFAULT_MAX_SIZE - 1)
               /\ current_size = 0
               /\ is_empty(current_size) )
    /\ call.op = "is_empty"
          => (call.ret = Some(TRUE) <=> current_size = 0)

\* C17 witness: is_empty() has just returned true on a map with no entry.
C17_Witness ==
    /\ call.op = "is_empty"
    /\ call.ret = Some(TRUE)
    /\ array = new_array

EmptiedStackIsEmpty ==
    lifo = <<>> => (data = <<>> /\ size = 0 /\ stack_is_empty(data))

\* pop returns the most recently pushed item that has not been popped yet.
PopReturnsLastPushed ==
    call'.op = "pop"
        => call'.ret = (IF lifo = <<>> THEN None ELSE Some(lifo[Len(lifo)]))

\* C19: the stack is LIFO: pop returns the most recently pushed item that has
\* not yet been popped, so popping everything returns the items in reverse
\* push order and leaves the stack empty with size 0.
C19_StackIsLifo ==
    []EmptiedStackIsEmpty /\ [][PopReturnsLastPushed]_vars

\* C19 witness: the last of the pushed items has just been popped.
C19_Witness ==
    /\ call.op = "pop"
    /\ call.ret # None
    /\ stack_used
    /\ lifo = <<>>
    /\ data = <<>>

\* C20: pop on an empty stack returns None and leaves data, size (0) and
\* pointer_to_top (-1) unchanged, also when the stack became empty after
\* earlier pushes and pops.
C20_PopOnEmptyStack ==
    [][(call'.op = "pop" /\ stack_is_empty(data))
          => ( /\ call'.ret = None
               /\ data' = data
               /\ size = 0 /\ size' = 0
               /\ pointer_to_top = -1 /\ pointer_to_top' = -1
               /\ ~panicked' )]_vars

\* C20 witness: pop has just returned None on a stack that was emptied after
\* earlier pushes.
C20_Witness ==
    /\ call.op = "pop"
    /\ call.ret = None
    /\ stack_used
    /\ data = <<>>

\* C21: Stack.peek returns the item the next pop would return, the item pushed
\* last and not yet popped, and leaves the stack as it was; it returns None
\* exactly when the stack is empty.
C21_PeekShowsNextPop ==
    [][call'.op = "peek" =>
          /\ call'.ret = pop(data, pointer_to_top, size).ret
          /\ call'.ret = (IF lifo = <<>> THEN None ELSE Some(lifo[Len(lifo)]))
          /\ (call'.ret = None) <=> stack_is_empty(data)
          /\ UNCHANGED stack_vars]_vars

C21_Witness ==
    /\ call.op = "peek"
    /\ call.ret # None
    /\ Len(data) >= 2
    /\ data[1] # data[Len(data)]

\* Removing from a non-empty queue returns the oldest item added and not yet
\* removed.
RemoveReturnsOldestAdded ==
    call'.op = "remove" /\ fifo # <<>> => call'.ret = Some(Head(fifo))

\* C22: Queue is first-in first-out: remove returns the oldest item added and
\* not yet removed, the stored items are the items not yet removed in the
\* order they were added, and once everything was removed the queue is empty
\* with current_size 0.
C22_QueueIsFifo ==
    /\ [](/\ queue_data = [i \in DOMAIN fifo |-> Some(fifo[i])]
          /\ fifo = <<>> => queue_is_empty(queue_current_size) /\ queue_current_size = 0)
    /\ [][RemoveReturnsOldestAdded]_vars

C22_Witness ==
    /\ call.op = "remove"
    /\ call.ret = Some(2)
    /\ fifo # <<>>
    /\ Head(fifo) = 1

\* C23: Queue.remove on an empty queue returns None and leaves the queue as it
\* was, empty with current_size 0, also after earlier adds and removes.
C23_RemoveOnEmptyQueue ==
    [][call'.op = "remove" /\ queue_is_empty(queue_current_size) =>
          /\ call'.ret = None
          /\ ~panicked'
          /\ UNCHANGED queue_vars
          /\ queue_data' = <<>>
          /\ queue_current_size' = 0]_vars

C23_Witness ==
    /\ call.op = "remove"
    /\ call.ret = None
    /\ queue_used
    /\ queue_data = <<>>

\* C24: Queue.peek on a non-empty queue returns the item added most recently,
\* the last element of data, and leaves the queue as it was; on an empty
\* queue it returns None.
C24_PeekReturnsNewest ==
    [][call'.op = "peek" =>
          /\ call'.ret = (IF fifo = <<>> THEN None ELSE Some(fifo[Len(fifo)]))
          /\ call'.ret = (IF queue_data = <<>> THEN None
                          ELSE queue_data[Len(queue_data)])
          /\ UNCHANGED queue_vars]_vars

C24_Witness ==
    /\ call.op = "peek"
    /\ call.ret = Some(2)
    /\ Head(fifo) = 1

\* Every add stores its item behind the items already held; an add to a full
\* queue first raises capacity by DEFAULT_CAPACITY_QUEUE, and the queue is not
\* full afterwards.
AddNeverRejects ==
    call'.op = "add" =>
        /\ ~panicked'
        /\ queue_current_size' = queue_current_size + 1
        /\ queue_data' = queue_data \o <<Some(call'.value)>>
        /\ capacity' = IF is_full(queue_current_size, capacity)
                       THEN capacity + DEFAULT_CAPACITY_QUEUE ELSE capacity
        /\ is_full(queue_current_size, capacity) =>
               ~is_full(queue_current_size', capacity')

\* C25: Queue.add never rejects an item: an add to a full queue raises
\* capacity by DEFAULT_CAPACITY_QUEUE before storing, so that the queue is not
\* full after the add and holds every item it held before; current_size never
\* exceeds capacity.
C25_AddGrowsCapacity ==
    /\ [](queue_current_size <= capacity)
    /\ [][AddNeverRejects]_vars

C25_Witness ==
    /\ call.op = "add"
    /\ queue_current_size = DEFAULT_CAPACITY_QUEUE + 1
    /\ capacity = 2 * DEFAULT_CAPACITY_QUEUE
    /\ Len(queue_data) = DEFAULT_CAPACITY_QUEUE + 1

\* The data held by the nodes of the list.
Held(list) == {list[i] : i \in DOMAIN list}

\* The position of the first node of the list holding x.
FirstHolding(list, x) == Min({i \in DOMAIN list : list[i] = x})

\* The list without the node at position i.
WithoutNode(list, i) == SubSeq(list, 1, i - 1) \o SubSeq(list, i + 1, Len(list))

\* The list with a node holding x placed before the node at position i.
WithNodeBefore(list, i, x) ==
    SubSeq(list, 1, i - 1) \o <<x>> \o SubSeq(list, i, Len(list))

\* C26: delete_node_with_data(d) on a list containing d removes exactly the
\* first node holding d, wherever it is, and keeps the other nodes in order;
\* it panics with "Node with given data not found!" only when no node holds d.
C26_DeleteNodeWithData ==
    [][call'.op = "delete_node_with_data" =>
          /\ call'.data \in Held(first) =>
                 /\ ~panicked'
                 /\ first' = WithoutNode(first, FirstHolding(first, call'.data))
          /\ call'.panic = DataNotFoundMessage => call'.data \notin Held(first)]_vars

\* C27: delete_last on a non-empty list, a list of one node included, removes
\* the last node; it panics with "Cannot delete the last element from an
\* empty list!" only when the list is empty.
C27_DeleteLast ==
    [][call'.op = "delete_last" =>
          /\ first # <<>> =>
                 /\ ~panicked'
                 /\ first' = SubSeq(first, 1, Len(first) - 1)
          /\ call'.panic = DeleteLastMessage => first = <<>>]_vars

\* C28: insert_before_given(data, given) places data immediately before the
\* first node holding given, the head included; it panics with "Given node
\* '<given>' not found in the list!" only when no node holds given.
C28_InsertBeforeGiven ==
    [][call'.op = "insert_before_given" =>
          /\ call'.given_data \in Held(first) =>
                 /\ ~panicked'
                 /\ first' = WithNodeBefore(first,
                                 FirstHolding(first, call'.given_data), call'.data)
          /\ call'.panic = GivenNotFoundMessage(call'.given_data) =>
                 call'.given_data \notin Held(first)]_vars

\* C29: insert_after_given(data, given) places data immediately after the
\* first node holding given; the other nodes keep their order and the list
\* grows by one node.
C29_InsertAfterGiven ==
    [][call'.op = "insert_after_given" /\ call'.given_data \in Held(first) =>
          /\ ~panicked'
          /\ first' = WithNodeBefore(first,
                          FirstHolding(first, call'.given_data) + 1, call'.data)
          /\ Len(first') = Len(first) + 1]_vars

C29_Witness ==
    /\ call.op = "insert_after_given"
    /\ call.panic = NoPanic
    /\ call.data = 2
    /\ call.given_data = 1
    /\ first = <<1, 2, 2, 1>>

\* C30: insert_after_given and insert_before_given panic on an empty list and
\* when no node holds the reference, delete_first panics on an empty list,
\* delete_node_with_data panics when no node holds the data; a call that
\* panics leaves the list as it was.
C30_MisuseIsFatal ==
    [][/\ /\ call'.op \in {"insert_after_given", "insert_before_given"}
          /\ (first = <<>> \/ call'.given_data \notin Held(first))
          => panicked' /\ first' = first
       /\ call'.op = "delete_first" /\ first = <<>>
          => panicked' /\ first' = first
       /\ call'.op = "delete_node_with_data" /\ call'.data \notin Held(first)
          => panicked' /\ first' = first
       /\ panicked' => first' = first]_vars

C30_Witness ==
    /\ call.op = "delete_node_with_data"
    /\ call.panic = DataNotFoundMessage
    /\ panicked
    /\ first # <<>>

\* C31: append places the new item at the tail and prepend places it at the
\* head, the existing nodes keeping their order; after a run of appends to a
\* new list the list holds exactly the appended items in call order.
C31_AppendAndPrepend ==
    /\ [](appended # None => first = appended[1])
    /\ [][/\ call'.op = "append" => first' = first \o <<call'.data>>
          /\ call'.op = "prepend" => first' = <<call'.data>> \o first]_vars

C31_Witness ==
    /\ call.op = "append"
    /\ appended = Some(<<1, 2, 2>>)
    /\ first = <<1, 2, 2>>

\* C32: delete_first on a non-empty list removes exactly the head node and
\* leaves the remaining nodes in order, a one-node list becoming empty; clear
\* leaves any list empty.
C32_DeleteFirstAndClear ==
    [][/\ call'.op = "delete_first" /\ first # <<>> =>
              /\ ~panicked'
              /\ first' = Tail(first)
              /\ Len(first) = 1 => list_is_empty(first')
       /\ call'.op = "clear" => ~panicked' /\ list_is_empty(first')]_vars

C32_Witness ==
    /\ call.op = "delete_first"
    /\ ~panicked
    /\ Len(first) >= 2
    /\ first[1] # first[2]

CollidingKeys == {"K", "Q", "11"}

C35_EntriesLiveInTheirBucket ==
    /\ \A i \in DOMAIN array :
           array[i] # None =>
               \A j \in DOMAIN array[i][1] : get_index(array[i][1][j][1]) = i
    /\ \A k \in DOMAIN latest :
           Stored(array, k) => get(array, k) # None

C35_Witness ==
    /\ call.op = "insert"
    /\ TotalEntries(array) = 3
    /\ Stored(array, "Q")
    /\ Stored(array, "A")

====
